---- MODULE Spec2Model ----
(***************************************************************************)
(* logup (src/index.js): an Express server whose POST /upload handler      *)
(* probes Bugzilla for the bug, finds or creates the bug's folder on a     *)
(* shared Google Drive, opens a resumable upload session, PUTs the bytes   *)
(* to the session URL and comments on the bug.                             *)
(*                                                                         *)
(* Every request is one run of the async handler.  Each await of the       *)
(* handler is one action: the dependency call, the effect it has on the    *)
(* remote service, its response, and the handler's code up to the next     *)
(* await (or to the response it sends).  Requests interleave at the awaits.*)
(***************************************************************************)
EXTENDS Integers, Sequences, FiniteSets, TLC

\* Number of POST /upload requests the server receives in one behaviour.
NumReqs == 2

Reqs == 1..NumReqs

\* Values of the form field bugid, and the bugs Bugzilla knows.
BugIds == {"12345", "67890", "404"}
ExistingBugs == {"12345", "67890"}

\* The dependency calls of the handler, in the order of the code.
CallKinds == {"checkBugIdExists", "filesList", "filesCreate",
              "createResumableUpload", "uploadFile", "createBugzillaComment"}

VARIABLES
  env,        \* the environment and key file the process was started with
  listening,  \* app.listen was called
  alive,      \* the node process runs (FALSE once it exited or crashed)
  req,        \* per request: the handler's position, locals and response
  folders,    \* Drive: the folders of the shared drive
  sessions,   \* Drive: the resumable upload sessions it has opened
  files,      \* Drive: the files stored through a session
  comments,   \* Bugzilla: number of comments posted per bug
  transfers   \* history: the PUT requests issued: request, its n-th, target URL

vars == <<env, listening, alive, req, folders, sessions, files, comments, transfers>>

----------------------------------------------------------------------------
\* HTTP responses and transport failures of the dependency calls.

Resp(s, b) == [kind |-> "response", status |-> s, body |-> b]
NetErr == [kind |-> "error", status |-> -1, body |-> ""]
NoResp == [kind |-> "none", status |-> -1, body |-> ""]

\* response.ok of fetch, and the statusCode >= 200 && statusCode < 300 tests.
Is2xx(s) == s >= 200 /\ s < 300

\* Drive assigns a fresh opaque id to every folder, session and file it
\* creates. The model names the id after the call that made Drive create
\* it: <<r, n>> for the n-th call of that kind of request r. <<>> is the
\* empty string getFolderId returns for "no folder", and the undefined
\* location header.
NoId == <<>>
FreshId(rq, r, k) == <<r, rq.calls[k]>>

\* The answers Bugzilla can give to GET /rest/bug/<id>: a success status only
\* for a bug it knows; 401 stands for an outage or a rejected API key.
ProbeResponses(bug) ==
  {NetErr} \cup {Resp(s, "") : s \in IF bug \in ExistingBugs THEN {200, 401} ELSE {401, 404}}

\* The answers Bugzilla can give to POST /rest/bug/<id>/comment.
CommentResponses == {NetErr, Resp(200, ""), Resp(201, ""), Resp(403, "")}

\* The answers of the Drive client (drive.files.list, drive.files.create):
\* the googleapis client throws on a non-2xx answer and on a transport error.
DriveResponses == {NetErr, Resp(200, ""), Resp(403, "")}

\* The answers to the session-initiation POST.
SessionResponses == {NetErr, Resp(200, ""), Resp(403, "")}

\* The answers to the data-transfer PUT: the body is a file descriptor with
\* an id, a JSON object without an id, or text that is no JSON.
UploadResponses ==
  {NetErr, Resp(500, "error")} \cup
  {Resp(200, b) : b \in {"json_with_id", "json_without_id", "not_json"}}

----------------------------------------------------------------------------
\* The handler's state before the request arrives.  res.statusCode is 200
\* until res.status() changes it (Express).
IdleReq ==
  [pc |-> "idle", bugid |-> "", hasFile |-> FALSE, size |-> 0,
   folder |-> NoId, uploadUrl |-> NoId, userFeedback |-> <<>>,
   statusCode |-> 200, sent |-> FALSE, body |-> <<>>,
   during |-> {},
   calls |-> [k \in CallKinds |-> 0],
   got |-> [k \in CallKinds |-> "none"]]

\* A folder that was on the drive before the server started, directly
\* under the drive.
OldFolder ==
  [id |-> <<0, 0>>, name |-> "12345", parent |-> "DRIVE_ID", creator |-> 0,
   during |-> {}]

\* A folder that was on the drive before the server started, inside another
\* folder of the drive: the listing (corpora 'drive', q: mimeType folder)
\* has no condition on parents and returns it as well.
NestedFolder ==
  [id |-> <<0, 1>>, name |-> "12345", parent |-> "archive", creator |-> 0,
   during |-> {}]

\* An environment variable is unset, empty or set; the key file key.json
\* is readable JSON or not.
Undefined == "<undefined>"
EnvValues == {Undefined, "", "set"}
Environments ==
  [MOZ_LOGUP_DRIVE_ID : EnvValues, MOZ_LOGUP_BUGZILLA_API_KEY : EnvValues,
   keyFile : {"json", "unreadable"}]

Init ==
  /\ env \in Environments
  /\ listening = FALSE
  /\ alive = TRUE
  /\ req = [r \in Reqs |-> IdleReq]
  /\ folders \in {{}, {OldFolder}, {NestedFolder}}
  /\ sessions = {}
  /\ files = {}
  /\ comments = [b \in BugIds |-> 0]
  /\ transfers = {}

\* What the remote service answered, as the history of a request keeps it:
\* "ok" for a 2xx answer and "failed" for any other answer and for a
\* transport error; the comment post keeps whether the status was 201, the
\* byte upload what the body of a 2xx answer was.
Outcome(k, resp) ==
  IF resp.kind = "none" THEN "none"
  ELSE IF k = "createBugzillaComment"
    THEN (IF resp.kind = "response" /\ resp.status = 201 THEN "201" ELSE "not201")
  ELSE IF resp.kind = "error" \/ resp.status < 200 \/ resp.status > 299 THEN "failed"
  ELSE IF k = "uploadFile" THEN resp.body
  ELSE "ok"

\* The request's record after the call of kind k was issued and answered.
Called(rq, k, resp) ==
  [rq EXCEPT !.calls[k] = @ + 1, !.got[k] = Outcome(k, resp)]

\* res.send(body): the response goes out with the current status code.
Send(rq, body) ==
  [rq EXCEPT !.sent = TRUE, !.body = body, !.pc = "done"]

\* A handler that starts the chain again instead of answering.
Catch_Retry(rq) ==
  [rq EXCEPT !.pc = "checkBugIdExists"]

\* The catch block of the handler: res.status(500).send('Error uploading file').
Catch(rq) ==
  Send([rq EXCEPT !.statusCode = 500], <<"Error uploading file">>)

\* A handler that probes the tracker although no file is attached.
NoFileAnswer_Probes(rq) ==
  [rq EXCEPT !.pc = "checkBugIdExists"]

\* The else branch of if (req.file): res.status(400).send('No file uploaded').
NoFileAnswer(rq) ==
  Send([rq EXCEPT !.statusCode = 400], <<"No file uploaded">>)

----------------------------------------------------------------------------
\* Pure parts of the handler and of the functions it calls.

\* checkBugIdExists without the test of response.ok.
CheckBugIdExists_NoOkTest(resp) ==
  IF resp.kind = "error"
    THEN [error |-> TRUE, message |-> "Unknown"]
    ELSE [error |-> FALSE, message |-> ""]

\* checkBugIdExists whose catch reports no error.
CheckBugIdExists_CatchOk(resp) ==
  IF resp.kind = "error"
    THEN [error |-> FALSE, message |-> ""]
    ELSE IF ~Is2xx(resp.status)
      THEN [error |-> TRUE, message |-> "Bug number does not appear to exist"]
      ELSE [error |-> FALSE, message |-> ""]

\* checkBugIdExists: the object it resolves to for an answer of the tracker.
CheckBugIdExists(resp) ==
  IF resp.kind = "error"
    THEN [error |-> TRUE, message |-> "Unknown"]
    ELSE IF ~Is2xx(resp.status)
      THEN [error |-> TRUE, message |-> "Bug number does not appear to exist"]
      ELSE [error |-> FALSE, message |-> ""]

\* The googleapis client rejects on a transport error and on a non-2xx answer.
DriveThrows(resp) == resp.kind = "error" \/ ~Is2xx(resp.status)

\* getFolderId that looks at the first entry of the listing only.
GetFolderId_FirstOnly(fs, name) ==
  IF fs = <<>> THEN NoId
  ELSE IF Head(fs).name = name THEN Head(fs).id
  ELSE NoId

\* getFolderId's loop over response.data.files: the id of the first entry
\* whose name equals the given name, "" when there is none.
RECURSIVE GetFolderId(_, _)
GetFolderId(fs, name) ==
  IF fs = <<>> THEN NoId
  ELSE IF Head(fs).name = name THEN Head(fs).id
  ELSE GetFolderId(Tail(fs), name)

\* Metadata that names every folder alike.
FolderMetadata_FixedName(name) == [name |-> "logs", parent |-> "DRIVE_ID"]

\* The metadata createFolder sends to drive.files.create.
FolderMetadata(name) == [name |-> name, parent |-> "DRIVE_ID"]

\* Metadata that puts the file directly under the drive.
FileMetadata_Root(rq) == [name |-> "originalname", parent |-> <<"DRIVE_ID">>]

\* The fileMetadata of the handler: the file's name and parents: [folder].
FileMetadata(rq) == [name |-> "originalname", parent |-> rq.folder]

\* createResumableUpload that resolves on every answer.
SessionResolves_AnyStatus(resp) == resp.kind = "response"

\* createResumableUpload: the promise resolves on a 2xx answer, and rejects
\* on any other answer and on a transport error.
SessionResolves(resp) == resp.kind = "response" /\ Is2xx(resp.status)

\* uploadFile without the status test in the 'end' listener.
UploadSettles_AnyStatus(resp) ==
  IF resp.kind = "error" THEN "reject"
  ELSE IF resp.body = "not_json" THEN "throw"
  ELSE "resolve"

\* uploadFile: what becomes of its promise. On a 2xx answer the 'end'
\* listener calls resolve(JSON.parse(data)); JSON.parse throws inside the
\* listener, outside the promise executor, when the body is no JSON.
UploadSettles(resp) ==
  IF resp.kind = "error" THEN "reject"
  ELSE IF ~Is2xx(resp.status) THEN "reject"
  ELSE IF resp.body = "not_json" THEN "throw"
  ELSE "resolve"

\* The URL kept in one place shared by all requests.
UploadTarget_Shared(rq) ==
  IF sessions = {} THEN NoId ELSE (CHOOSE s \in sessions : TRUE).url

\* The URL the handler passes to uploadFile.
UploadTarget(rq) == rq.uploadUrl

\* createBugzillaComment that accepts every success status.
CreateBugzillaComment_AnyOk(resp) == resp.kind = "response" /\ Is2xx(resp.status)

\* createBugzillaComment: the boolean it resolves to.
CreateBugzillaComment(resp) == resp.kind = "response" /\ resp.status = 201

\* A catch block that deletes the folder the request created.
FoldersAfterCatch_Rollback(r) == {f \in folders : f.creator # r}

\* The folders of the drive after the catch block ran: it calls nothing.
FoldersAfterCatch(r) == folders

----------------------------------------------------------------------------
\* The orders in which Drive may list the set S of folders.
Orderings(S) ==
  {s \in [1..Cardinality(S) -> S] : \A i, j \in 1..Cardinality(S) : s[i] = s[j] => i = j}

\* !DRIVE_ID, !BUGZILLA_API_KEY: an unset and an empty variable are falsy.
Truthy(v) == v # Undefined /\ v # ""

\* A start-up that checks the drive id only.
ConfigOk_DriveOnly(e) ==
  /\ e.keyFile = "json"
  /\ Truthy(e.MOZ_LOGUP_DRIVE_ID)

\* The module's top level reaches app.listen: JSON.parse(readFileSync(..))
\* did not throw and neither configuration check returned.
ConfigOk(e) ==
  /\ e.keyFile = "json"
  /\ Truthy(e.MOZ_LOGUP_DRIVE_ID)
  /\ Truthy(e.MOZ_LOGUP_BUGZILLA_API_KEY)

\* The module's top level runs once: it ends in app.listen, or the process
\* ends (an exception of readFileSync, or a return that leaves the event
\* loop empty).
Startup ==
  /\ alive
  /\ ~listening
  /\ IF ConfigOk(env)
       THEN listening' = TRUE /\ alive' = alive
       ELSE listening' = listening /\ alive' = FALSE
  /\ UNCHANGED <<env, req, folders, sessions, files, comments, transfers>>

\* req.file as multer leaves it: absent when the form had no file part,
\* else an object with the size of the buffer (0 for an empty file).
NoFile == [present |-> FALSE, size |-> 0]
FileOfSize(n) == [present |-> TRUE, size |-> n]

\* if (req.file) without the truthiness: an empty file counts as no file.
FileAttached_NonEmpty(file) == file.present /\ file.size > 0

\* if (req.file): an object is truthy whatever its size, undefined is not.
FileAttached(file) == file.present

\* A POST /upload arrives with one of the given uploads (requests are
\* numbered in the order they arrive). Without a file the handler answers
\* 400 at once; with one it issues the existence probe.
Arrive(r, uploads) ==
  /\ alive
  /\ listening
  /\ req[r].pc = "idle"
  /\ IF r = 1 THEN TRUE ELSE req[r - 1].pc # "idle"
  /\ \E b \in BugIds, file \in uploads :
       LET rq == [req[r] EXCEPT !.bugid = b, !.hasFile = file.present,
                                !.size = file.size] IN
       req' = [req EXCEPT ![r] =
                 IF FileAttached(file) THEN [rq EXCEPT !.pc = "checkBugIdExists"]
                 ELSE NoFileAnswer(rq)]
  /\ UNCHANGED <<env, listening, alive, folders, sessions, files, comments, transfers>>

\* The uploads of a request: no file or a file that holds bytes; and the
\* same with the empty file among them.
Uploads == {NoFile, FileOfSize(1)}
SizedUploads == {NoFile, FileOfSize(0), FileOfSize(1)}

\* A POST /upload with no file or with a file that holds bytes.
PostUpload(r) == Arrive(r, Uploads)

\* A POST /upload with no file, an empty file or a file that holds bytes,
\* arriving when no other request is in flight.
PostUploadSized(r) ==
  /\ \A q \in Reqs : req[q].pc \in {"idle", "done"}
  /\ Arrive(r, SizedUploads)

\* await checkBugIdExists(req.body.bugid), and the early return on an error.
CheckBug(r) ==
  /\ alive
  /\ req[r].pc = "checkBugIdExists"
  /\ \E resp \in ProbeResponses(req[r].bugid) :
       LET rq == Called(req[r], "checkBugIdExists", resp)
           maybeError == CheckBugIdExists(resp) IN
       req' = [req EXCEPT ![r] =
                 IF maybeError.error
                   THEN Send(rq, <<"Failed to upload file: ", maybeError.message>>)
                   ELSE [rq EXCEPT !.pc = "getFolderId"]]
  /\ UNCHANGED <<env, listening, alive, folders, sessions, files, comments, transfers>>

\* createFolder, first half: await getFolderId(name), then either return
\* the id found (and go on to createResumableUpload) or go on to create.
ListFolders(r) ==
  /\ alive
  /\ req[r].pc = "getFolderId"
  /\ \E resp \in DriveResponses :
       LET rq == Called(req[r], "filesList", resp) IN
       IF DriveThrows(resp)
         THEN /\ req' = [req EXCEPT ![r] = Catch(rq)]
              /\ folders' = FoldersAfterCatch(r)
         ELSE /\ \E fs \in Orderings(folders) :
                   LET folderId == GetFolderId(fs, rq.bugid) IN
                   req' = [req EXCEPT ![r] =
                             IF folderId # NoId
                               THEN [rq EXCEPT !.folder = folderId,
                                               !.pc = "createResumableUpload"]
                               ELSE [rq EXCEPT !.pc = "filesCreate"]]
              /\ folders' = folders
  /\ UNCHANGED <<env, listening, alive, sessions, files, comments, transfers>>

\* History: request c has just created a folder; every other request that
\* has listed the folders, found none of its name and not yet created one
\* notes c in "during".
NoteCreation(rs, c) ==
  [q \in Reqs |->
     IF q # c /\ rs[q].pc = "filesCreate" THEN [rs[q] EXCEPT !.during = @ \cup {c}]
     ELSE rs[q]]

\* createFolder, second half: await drive.files.create(...). Drive creates
\* the folder when it answers 2xx, and may have created it when the answer
\* was lost on the way back.
CreateFolder(r) ==
  /\ alive
  /\ req[r].pc = "filesCreate"
  /\ \E resp \in DriveResponses, lost \in BOOLEAN :
       LET rq == Called(req[r], "filesCreate", resp)
           meta == FolderMetadata(rq.bugid)
           new == [id |-> FreshId(rq, r, "filesCreate"), name |-> meta.name,
                   parent |-> meta.parent, creator |-> r, during |-> rq.during] IN
       /\ lost => resp.kind = "error"
       /\ IF DriveThrows(resp)
            THEN IF lost
                   THEN /\ req' = NoteCreation([req EXCEPT ![r] = Catch(rq)], r)
                        /\ folders' = folders \cup {new}
                   ELSE /\ req' = [req EXCEPT ![r] = Catch(rq)]
                        /\ folders' = FoldersAfterCatch(r)
            ELSE /\ req' = NoteCreation(
                              [req EXCEPT ![r] = [rq EXCEPT !.folder = new.id,
                                                            !.pc = "createResumableUpload"]], r)
                 /\ folders' = folders \cup {new}
  /\ UNCHANGED <<env, listening, alive, sessions, files, comments, transfers>>

\* await createResumableUpload(auth, fileMetadata): the token is fetched,
\* the metadata is POSTed; on 2xx Drive opens a session and names its URL
\* in the location header.
CreateSession(r) ==
  /\ alive
  /\ req[r].pc = "createResumableUpload"
  /\ \E resp \in SessionResponses :
       LET rq == Called(req[r], "createResumableUpload", resp)
           fileMetadata == FileMetadata(rq)
           opened == resp.kind = "response" /\ Is2xx(resp.status)
           url == FreshId(rq, r, "createResumableUpload") IN
       /\ sessions' = IF opened
                        THEN sessions \cup {[url |-> url, parent |-> fileMetadata.parent,
                                              req |-> r]}
                        ELSE sessions
       /\ IF SessionResolves(resp)
            THEN /\ req' = [req EXCEPT ![r] =
                              [rq EXCEPT !.uploadUrl = IF opened THEN url ELSE NoId,
                                         !.pc = "uploadFile"]]
                 /\ folders' = folders
            ELSE /\ req' = [req EXCEPT ![r] = Catch(rq)]
                 /\ folders' = FoldersAfterCatch(r)
  /\ UNCHANGED <<env, listening, alive, files, comments, transfers>>

\* await uploadFile(uploadUrl, size, mimetype, bufferStream): one PUT to
\* the session URL. new URL(undefined) throws inside the executor, which
\* rejects the promise before any request is made.
UploadFile(r) ==
  /\ alive
  /\ req[r].pc = "uploadFile"
  /\ LET target == UploadTarget(req[r]) IN
     IF target = NoId
       THEN /\ req' = [req EXCEPT ![r] = Catch(Called(req[r], "uploadFile", NoResp))]
            /\ folders' = FoldersAfterCatch(r)
            /\ UNCHANGED <<alive, files, transfers>>
       ELSE \E resp \in UploadResponses, lost \in BOOLEAN :
            LET rq == Called(req[r], "uploadFile", resp)
                stored == lost \/ (resp.kind = "response" /\ Is2xx(resp.status))
                ses == {s \in sessions : s.url = target}
                new == {[id |-> FreshId(rq, r, "uploadFile"), parent |-> s.parent,
                         session |-> s.url, size |-> rq.size, req |-> r] : s \in ses}
                how == UploadSettles(resp) IN
            /\ lost => resp.kind = "error"
            /\ transfers' = transfers \cup {[req |-> r, url |-> target,
                                           n |-> rq.calls["uploadFile"],
                                           length |-> rq.size]}
            /\ files' = IF stored THEN files \cup new ELSE files
            /\ CASE how = "resolve" ->
                      /\ req' = [req EXCEPT ![r] =
                                   [rq EXCEPT !.userFeedback =
                                                Append(@, "File uploaded successfully.\n<br>"),
                                              !.pc = "createBugzillaComment"]]
                      /\ folders' = folders
                      /\ alive' = alive
                 [] how = "reject" ->
                      /\ req' = [req EXCEPT ![r] = Catch(rq)]
                      /\ folders' = FoldersAfterCatch(r)
                      /\ alive' = alive
                 [] OTHER ->
                      /\ req' = [req EXCEPT ![r] = [rq EXCEPT !.pc = "crashed"]]
                      /\ folders' = folders
                      /\ alive' = FALSE
  /\ UNCHANGED <<env, listening, sessions, comments>>

\* await createBugzillaComment(bugid), the last concat and res.send.
\* Bugzilla stores the comment when it answers 201.
PostComment(r) ==
  /\ alive
  /\ req[r].pc = "createBugzillaComment"
  /\ \E resp \in CommentResponses :
       LET rq == Called(req[r], "createBugzillaComment", resp)
           userFeedback ==
             Append(rq.userFeedback,
                    IF CreateBugzillaComment(resp) THEN "Added comment to bugzilla"
                    ELSE "Failed to comment to bugzilla") IN
       /\ req' = [req EXCEPT ![r] =
                    Send([rq EXCEPT !.userFeedback = userFeedback], userFeedback)]
       /\ comments' = IF resp.kind = "response" /\ resp.status = 201
                        THEN [comments EXCEPT ![rq.bugid] = @ + 1]
                        ELSE comments
  /\ UNCHANGED <<env, listening, alive, folders, sessions, files, transfers>>

Next ==
  \/ Startup
  \/ \E r \in Reqs : PostUpload(r)
  \/ \E r \in Reqs : CheckBug(r)
  \/ \E r \in Reqs : ListFolders(r)
  \/ \E r \in Reqs : CreateFolder(r)
  \/ \E r \in Reqs : CreateSession(r)
  \/ \E r \in Reqs : UploadFile(r)
  \/ \E r \in Reqs : PostComment(r)

Spec == Init /\ [][Next]_vars

\* Every dependency call that was issued is answered in the end (with a
\* response or a transport error) and the event loop then runs the
\* handler's continuation; the start-up runs. Arrivals are not forced.
Fairness ==
  /\ WF_vars(Startup)
  /\ \A r \in Reqs :
       /\ WF_vars(CheckBug(r))
       /\ WF_vars(ListFolders(r))
       /\ WF_vars(CreateFolder(r))
       /\ WF_vars(CreateSession(r))
       /\ WF_vars(UploadFile(r))
       /\ WF_vars(PostComment(r))

FairSpec == Init /\ [][Next]_vars /\ Fairness

\* The requests served one at a time, empty files among the uploads.
NextSized ==
  \/ Startup
  \/ \E r \in Reqs : PostUploadSized(r)
  \/ \E r \in Reqs : CheckBug(r)
  \/ \E r \in Reqs : ListFolders(r)
  \/ \E r \in Reqs : CreateFolder(r)
  \/ \E r \in Reqs : CreateSession(r)
  \/ \E r \in Reqs : UploadFile(r)
  \/ \E r \in Reqs : PostComment(r)

SpecSized == Init /\ [][NextSized]_vars

----------------------------------------------------------------------------
\* Vocabulary of the properties.

StorageCalls == {"filesList", "filesCreate", "createResumableUpload", "uploadFile"}

\* The dependency calls in the order the handler issues them.
CallOrder == <<"checkBugIdExists", "filesList", "filesCreate",
               "createResumableUpload", "uploadFile", "createBugzillaComment">>

\* Bodies of a 2xx answer to the PUT with which uploadFile resolves.
ParsedBodies == {"json_with_id", "json_without_id"}

\* uploadFile resolved for request r: the byte streaming succeeded.
Streamed(r) == req[r].got["uploadFile"] \in ParsedBodies

\* Request r reached Succeeded: the bytes were streamed and it was answered.
SucceededReq(r) == Streamed(r) /\ req[r].sent

\* Nothing on the Drive was made by request r.
NoStoreEffect(r) ==
  /\ \A f \in folders : f.creator # r
  /\ \A x \in sessions : x.req # r
  /\ \A f \in files : f.req # r
  /\ \A t \in transfers : t.req # r

\* No folder was created between another request's listing and its create.
NoConcurrentCreator == \A f \in folders : f.during = {}

----------------------------------------------------------------------------
\* C1: a request whose bug id the tracker does not know, or whose probe was
\* answered with a non-success status or failed in transport, has issued no
\* storage call, has left nothing on the Drive, and was answered with the
\* message "Failed to upload file: ...".
C1_UnknownTicketNoStorage ==
  \A r \in Reqs :
    (\/ req[r].bugid \notin ExistingBugs /\ req[r].calls["checkBugIdExists"] > 0
     \/ req[r].got["checkBugIdExists"] = "failed") =>
      /\ \A k \in StorageCalls : req[r].calls[k] = 0
      /\ NoStoreEffect(r)
      /\ req[r].pc = "done"
      /\ req[r].sent
      /\ Len(req[r].body) = 2
      /\ req[r].body[1] = "Failed to upload file: "

C1_Witness ==
  \E r \in Reqs :
    /\ req[r].bugid \notin ExistingBugs
    /\ req[r].got["checkBugIdExists"] = "failed"
    /\ req[r].sent
    /\ folders # {}

\* C2: once the session initiation of a request has failed (non-2xx answer
\* or transport error), that request has ended and uploadFile was not
\* called in it; no PUT of that request exists.
C2_NoStreamAfterSessionFailure ==
  \A r \in Reqs :
    req[r].got["createResumableUpload"] = "failed" =>
      /\ req[r].calls["uploadFile"] = 0
      /\ \A t \in transfers : t.req # r
      /\ req[r].pc = "done"

C2_Witness ==
  \E r \in Reqs :
    /\ req[r].got["createResumableUpload"] = "failed"
    /\ req[r].pc = "done"

\* C3: the answer to a request whose byte streaming succeeded has status
\* 200; its message ends with "Added comment to bugzilla" exactly when the
\* comment post was answered 201, and with "Failed to comment to bugzilla"
\* for every other outcome.
C3_CommentOutcomeInMessage ==
  \A r \in Reqs :
    (Streamed(r) /\ req[r].sent) =>
      /\ req[r].statusCode = 200
      /\ Len(req[r].body) = 2
      /\ req[r].body[1] = "File uploaded successfully.\n<br>"
      /\ (req[r].body[2] = "Added comment to bugzilla"
            <=> req[r].got["createBugzillaComment"] = "201")
      /\ (req[r].body[2] = "Failed to comment to bugzilla"
            <=> req[r].got["createBugzillaComment"] = "not201")

C3_Witness ==
  \E r \in Reqs :
    /\ Streamed(r)
    /\ req[r].sent
    /\ req[r].got["createBugzillaComment"] = "not201"
    /\ req[r].statusCode = 200

\* C4: as long as no folder was created while another request was between
\* its listing and its create, the Drive holds at most one folder of each
\* name, and two requests for the same bug got the same folder id.
C4_ResolveIdempotent ==
  NoConcurrentCreator =>
    /\ \A f, g \in folders : f.name = g.name => f = g
    /\ \A p, q \in Reqs :
         (/\ req[p].bugid = req[q].bugid
          /\ req[p].folder # NoId
          /\ req[q].folder # NoId) => req[p].folder = req[q].folder

C4_Witness ==
  \E p, q \in Reqs :
    /\ p # q
    /\ req[p].bugid = req[q].bugid
    /\ req[p].folder # NoId
    /\ req[q].folder = req[p].folder
    /\ req[q].calls["filesCreate"] = 0
    /\ \E f \in folders : f.creator = p /\ f.id = req[p].folder
    /\ NoConcurrentCreator

\* C5: a request is answered with status 200 only when it reached
\* Succeeded.
C5_Status200OnlyWhenSucceeded ==
  \A r \in Reqs :
    (req[r].sent /\ req[r].statusCode = 200) => SucceededReq(r)

\* C6: a failed folder listing, folder creation, session initiation or byte
\* upload ends the request with status 500, and no call that comes later in
\* the handler was issued; no comment was posted.
C6_StageFailureIs500 ==
  \A r \in Reqs : \A i \in 2..5 :
    req[r].got[CallOrder[i]] = "failed" =>
      /\ req[r].pc = "done"
      /\ req[r].sent
      /\ req[r].statusCode = 500
      /\ \A j \in (i + 1)..6 : req[r].calls[CallOrder[j]] = 0

C6_Witness ==
  \E r \in Reqs :
    /\ req[r].got["uploadFile"] = "failed"
    /\ req[r].statusCode = 500
    /\ req[r].sent

\* C7: no request has issued a dependency call more than once, and a
\* request that reached Succeeded has issued the probe, the listing, the
\* session initiation, the byte upload and the comment post once each.
C7_EachCallAtMostOnce ==
  \A r \in Reqs :
    /\ \A k \in CallKinds : req[r].calls[k] <= 1
    /\ SucceededReq(r) =>
         \A k \in CallKinds \ {"filesCreate"} : req[r].calls[k] = 1

C7_Witness ==
  \E r \in Reqs :
    /\ SucceededReq(r)
    /\ req[r].calls["filesCreate"] = 1

\* C8: no step removes a folder from the Drive, and the step in which a
\* request fails at session initiation or at the byte upload leaves the
\* folders exactly as they were.
C8_NoRollback ==
  [][/\ folders \subseteq folders'
     /\ \A r \in Reqs :
          (/\ req[r].pc \in {"createResumableUpload", "uploadFile"}
           /\ req'[r].pc = "done") => folders' = folders]_vars

C8_Witness ==
  \E r \in Reqs :
    /\ req[r].got["createResumableUpload"] = "failed"
         \/ req[r].got["uploadFile"] = "failed"
    /\ req[r].pc = "done"
    /\ \E f \in folders : f.creator = r

\* C9: two folders of the same name exist only when one was created while
\* the creator of the other was between its listing and its create.
C9_DuplicateOnlyByRace ==
  \A f, g \in folders :
    (f # g /\ f.name = g.name) =>
      (f.creator \in g.during \/ g.creator \in f.during)

C9_Witness ==
  \E f, g \in folders :
    /\ f # g
    /\ f.name = g.name
    /\ f.creator # g.creator

\* C10: every PUT went to the URL of a session that the same request had
\* opened, and no two PUTs went to the same URL.
C10_SessionUrlNotShared ==
  /\ \A t \in transfers :
       \E x \in sessions : x.url = t.url /\ x.req = t.req
  /\ \A t, u \in transfers : t.url = u.url => t = u

C10_Witness ==
  \E t \in transfers : \E q \in Reqs :
    /\ q # t.req
    /\ req[q].pc = "uploadFile"
    /\ req[q].uploadUrl # NoId
    /\ req[q].uploadUrl # t.url

\* C11: every session was opened with the folder its request resolved as
\* parent, and every stored file lies in a folder of the drive whose name
\* is the bug id of the request that uploaded it.
C11_FileUnderOwnTicketFolder ==
  /\ \A x \in sessions : x.parent = req[x.req].folder /\ x.parent # NoId
  /\ \A f \in files :
       \E d \in folders : d.id = f.parent /\ d.name = req[f.req].bugid

C11_Witness ==
  \E f, g \in files :
    /\ f.req # g.req
    /\ req[f.req].bugid # req[g.req].bugid
    /\ f.parent # g.parent
    /\ \E d \in folders : d.id = f.parent /\ d.creator = f.req

\* C12: a request that arrived without a file was answered with status 400
\* and the message "No file uploaded"; it has issued no dependency call and
\* has left nothing on the Drive.
C12_NoFileIs400 ==
  \A r \in Reqs :
    (req[r].pc # "idle" /\ ~req[r].hasFile) =>
      /\ req[r].pc = "done"
      /\ req[r].sent
      /\ req[r].statusCode = 400
      /\ req[r].body = <<"No file uploaded">>
      /\ \A k \in CallKinds : req[r].calls[k] = 0
      /\ NoStoreEffect(r)

C12_Witness ==
  \E r \in Reqs :
    /\ req[r].pc = "done"
    /\ ~req[r].hasFile
    /\ req[r].statusCode = 400

\* Every call request r has issued was answered with success (the folder
\* creation only if it was issued; the comment post with any outcome).
AllCallsSucceeded(r) ==
  /\ req[r].got["checkBugIdExists"] = "ok"
  /\ req[r].got["filesList"] = "ok"
  /\ req[r].got["filesCreate"] \in {"none", "ok"}
  /\ req[r].got["createResumableUpload"] = "ok"
  /\ req[r].got["uploadFile"] \in ParsedBodies
  /\ req[r].got["createBugzillaComment"] # "none"

\* C13: a request with an empty file (size 0) is never answered 400; when
\* all its calls succeeded it reached Succeeded with status 200, its PUT
\* declared length 0 and the Drive holds its file of size 0; it ends
\* otherwise only when one of its calls failed.
C13_EmptyFileAccepted ==
  \A r \in Reqs :
    (req[r].pc # "idle" /\ req[r].hasFile /\ req[r].size = 0) =>
      /\ req[r].statusCode # 400
      /\ req[r].calls["checkBugIdExists"] > 0 \/ req[r].pc = "checkBugIdExists"
      /\ AllCallsSucceeded(r) =>
           /\ SucceededReq(r)
           /\ req[r].statusCode = 200
           /\ \E t \in transfers : t.req = r /\ t.length = 0
           /\ \E f \in files : f.req = r /\ f.size = 0
      /\ (req[r].pc = "done" /\ \A k \in CallKinds : req[r].got[k] # "failed") =>
           SucceededReq(r)

C13_Witness ==
  \E r \in Reqs :
    /\ req[r].hasFile
    /\ req[r].size = 0
    /\ SucceededReq(r)
    /\ req[r].got["uploadFile"] = "json_with_id"
    /\ \E f \in files : f.req = r /\ f.size = 0

\* A variable the start-up requires is missing: unset or empty.
Missing(v) == v = Undefined \/ v = ""

\* C14: when MOZ_LOGUP_DRIVE_ID or MOZ_LOGUP_BUGZILLA_API_KEY is missing the
\* server never listens: no request was received, no dependency call was
\* issued, and Drive and Bugzilla are as they were.
C14_MissingConfigNeverListens ==
  (Missing(env.MOZ_LOGUP_DRIVE_ID) \/ Missing(env.MOZ_LOGUP_BUGZILLA_API_KEY)) =>
    /\ ~listening
    /\ \A r \in Reqs :
         /\ req[r].pc = "idle"
         /\ ~req[r].sent
         /\ \A k \in CallKinds : req[r].calls[k] = 0
    /\ \A f \in folders : f.creator = 0
    /\ sessions = {} /\ files = {} /\ transfers = {}
    /\ \A b \in BugIds : comments[b] = 0

C14_Witness ==
  /\ ~Missing(env.MOZ_LOGUP_DRIVE_ID)
  /\ Missing(env.MOZ_LOGUP_BUGZILLA_API_KEY)
  /\ env.keyFile = "json"
  /\ ~alive
  /\ ~listening

\* The handler's positions in the order of the code.
Position(pc) ==
  CASE pc = "idle" -> 0
    [] pc = "checkBugIdExists" -> 1
    [] pc = "getFolderId" -> 2
    [] pc = "filesCreate" -> 3
    [] pc = "createResumableUpload" -> 4
    [] pc = "uploadFile" -> 5
    [] pc = "createBugzillaComment" -> 6
    [] OTHER -> 7

\* Each call request r has issued came after the success of the one before.
IssuedInOrder(r) ==
  /\ req[r].calls["filesList"] > 0 => req[r].got["checkBugIdExists"] = "ok"
  /\ req[r].calls["filesCreate"] > 0 => req[r].got["filesList"] = "ok"
  /\ req[r].calls["createResumableUpload"] > 0 =>
       /\ req[r].got["filesList"] = "ok"
       /\ req[r].got["filesCreate"] \in {"none", "ok"}
       /\ req[r].folder # NoId
  /\ req[r].calls["uploadFile"] > 0 => req[r].got["createResumableUpload"] = "ok"
  /\ req[r].calls["createBugzillaComment"] > 0 => req[r].got["uploadFile"] \in ParsedBodies
  /\ SucceededReq(r) => req[r].got["createBugzillaComment"] # "none"
  /\ \A k \in CallKinds : req[r].calls[k] <= 1

\* C15: in every request each dependency call was issued only after the
\* call before it in the handler had returned with success, the answer of a
\* succeeded request was sent after the comment post had returned, and no
\* step takes a request back to an earlier position of the handler.
C15_StrictlySequential ==
  /\ [](\A r \in Reqs : IssuedInOrder(r))
  /\ [][\A r \in Reqs :
          /\ Position(req'[r].pc) >= Position(req[r].pc)
          /\ req'[r].pc # req[r].pc => Position(req'[r].pc) > Position(req[r].pc)]_vars

C15_Witness ==
  \E r \in Reqs :
    /\ SucceededReq(r)
    /\ req[r].calls["filesCreate"] = 1
    /\ req[r].got["createBugzillaComment"] = "201"

\* C16: the id createFolder returned to a request denotes a folder named
\* exactly like the request's bug id whose parent is the drive itself, and
\* every folder a request created has the drive as parent.
C16_ResolvedFolderInRoot ==
  /\ \A r \in Reqs :
       req[r].folder # NoId =>
         \E d \in folders :
           /\ d.id = req[r].folder
           /\ d.name = req[r].bugid
           /\ d.parent = "DRIVE_ID"
  /\ \A d \in folders : d.creator # 0 => d.parent = "DRIVE_ID"

\* C17: provided every dependency call returns, every request that has
\* arrived is answered in the end.
C17_EveryRequestAnswered ==
  \A r \in Reqs : (req[r].pc # "idle") ~> req[r].sent

\* uploadFile resolved for request r: the handler went on to report
\* "File uploaded successfully."
ReportedUploaded(r) == Len(req[r].userFeedback) > 0

\* C18: uploadFile reports success only for a 2xx answer whose body is a
\* file descriptor with an id; a non-2xx answer and a transport error are
\* reported as a failure.
C18_SuccessNeedsFileId ==
  \A r \in Reqs :
    /\ ReportedUploaded(r) => req[r].got["uploadFile"] = "json_with_id"
    /\ req[r].got["uploadFile"] = "failed" =>
         ~ReportedUploaded(r) /\ req[r].statusCode = 500

\* C19: a probe answered with a success status lets the request go on to
\* the folder listing; a probe answered with any other status, or failed in
\* transport, ends the request with the message "Failed to upload file: ...",
\* not with the 500 of the catch block, and without a folder listing.
C19_ProbeFailureEndsAtTicketCheck ==
  \A r \in Reqs :
    /\ req[r].got["checkBugIdExists"] = "ok" =>
         req[r].pc = "getFolderId" \/ req[r].calls["filesList"] > 0
    /\ req[r].got["checkBugIdExists"] = "failed" =>
         /\ req[r].pc = "done"
         /\ req[r].sent
         /\ req[r].statusCode # 500
         /\ Len(req[r].body) = 2
         /\ req[r].body[1] = "Failed to upload file: "
         /\ \A k \in CallKinds \ {"checkBugIdExists"} : req[r].calls[k] = 0

C19_Witness ==
  \E r \in Reqs :
    /\ req[r].bugid \in ExistingBugs
    /\ req[r].got["checkBugIdExists"] = "failed"
    /\ req[r].body = <<"Failed to upload file: ", "Unknown">>

====
